---- MODULE Spec2Model ----
(***************************************************************************)
(* A model of src/neuralnet.py: the NeuralNet class (a single-hidden-layer *)
(* network trained with scipy's TNC minimizer).                            *)
(*                                                                         *)
(* Numbers the arithmetic of which cannot be followed in integers (the     *)
(* sigmoid, the logarithm, the optimizer's search) are kept symbolic: a    *)
(* data matrix is its list of row identities, its column count and whether *)
(* its rows were unit-normalized; a prediction matrix is the term          *)
(* h(x, theta1, theta2); the optimizer returns some vector of the length   *)
(* of its starting point.  Lengths, shapes, slices, the order of the       *)
(* statements and the exceptions they raise are modelled as written.       *)
(***************************************************************************)
EXTENDS Integers, Sequences, FiniteSets, TLC

VARIABLES
    py,           \* major version of the interpreter running the file (2 or 3)
    X,            \* self.X
    Y,            \* self.Y
    num_labels,   \* self.num_labels
    input_size,   \* self.input_size
    hidden_size,  \* self.hidden_size
    lam,          \* self.lam
    params,       \* self.params, the stored flat parameter vector
    outfile,      \* content of the file named self.output (<<>> when absent)
    lastOp,       \* name of the last method called ("" before any call)
    args,         \* its arguments
    err,          \* the exception it ended with (NoErr when it returned)
    ret,          \* its return value (None when it returned nothing)
    writer,       \* kind of the last message it handed to self.writer
    x0,           \* starting point of the optimizer call it made, if train
    optInvoked,   \* whether it reached train's call of minimize
    idx,          \* values of i its learning-curve loop ran with, if test
    error_train,  \* the local list error_train when it ended, if test
    error_val     \* the local list error_val when it ended, if test

vars == <<py, X, Y, num_labels, input_size, hidden_size, lam, params, outfile,
          writer, lastOp, args, err, ret, x0, optInvoked, idx, error_train,
          error_val>>

(***************************************************************************)
(* Bounds of the model.                                                    *)
(***************************************************************************)
MaxRows == 3        \* rows of X and Y of an instance, in Spec
MaxCurveRows == 25  \* rows of X and Y of an instance, in SpecCurve
MaxVecLen == 5      \* length of a vector handed to set_params
MaxExtra == 2       \* entries too many of a vector handed to reshape_theta
MaxStep == 3        \* the step argument of test()
MaxSplitRows == 45  \* rows of an input of split()
MaxEntries == 2     \* entries of the y and h handed to get_cost
MaxEps == 3         \* distance of an h entry from 0 or 1, in halves of minval
MaxLam == 2         \* the regularization strength
MaxAcc == 1         \* magnitude of an accumulated (unregularized) gradient entry

ParamVals == {0, 1}         \* sample values of a parameter
Interpreters == {2, 3}
FeatureCounts == {1}        \* columns of X
LabelCounts == {1}          \* columns of Y

NoErr == "ok"
None == <<>>
Some(v) == <<v>>

Min(a, b) == IF a < b THEN a ELSE b

(***************************************************************************)
(* Data matrices.  rows: the identities of the rows, in order; n: the      *)
(* column count; unit: whether sklearn's normalize() was applied.          *)
(***************************************************************************)
Matrix(m, n) == [rows |-> [r \in 1..m |-> r], n |-> n, unit |-> FALSE]
Normalize(M) == [M EXCEPT !.unit = TRUE]
Rows(M) == Len(M.rows)

\* Python's s[a:b] on a sequence (0-based, half-open, clamped), 0 <= a.
Slice(s, a, b) == SubSeq(s, Min(a, Len(s)) + 1, Min(b, Len(s)))
\* input[a:b, :]
RowSlice(M, a, b) == [M EXCEPT !.rows = Slice(M.rows, a, b)]

\* The vectors of length n the model draws: every entry the same sample value.
ConstVecs(n) == {[i \in 1..n |-> v] : v \in ParamVals}
\* Every vector of length n over the sample values.
RECURSIVE AllVecs(_)
AllVecs(n) == IF n = 0 THEN {<<>>}
              ELSE {Append(v, x) : v \in AllVecs(n - 1), x \in ParamVals}

(***************************************************************************)
(* generate_params: a random vector of the architecture's length.          *)
(***************************************************************************)
ExpectedLen(hid, inp, lab) == hid * (inp + 1) + lab * (hid + 1)
GenerateParams(hid, inp, lab) == ConstVecs(ExpectedLen(hid, inp, lab))

(***************************************************************************)
(* reshape_theta.  np.reshape raises ValueError unless the segment has     *)
(* exactly r*c entries; a slice never raises.                              *)
(***************************************************************************)
Reshape(seg, r, c) ==
    IF Len(seg) # r * c
    THEN [err |-> "ValueError: reshape", m |-> <<>>]
    ELSE [err |-> NoErr,
          m |-> [i \in 1..r |-> [j \in 1..c |-> seg[(i - 1) * c + j]]]]

\* reshape_theta with the second slice bounded: params[cut : cut + lab*(hid+1)].
ReshapeThetaBounded(p, hid, inp, lab) ==
    LET cut == hid * (inp + 1)
        t1 == Reshape(Slice(p, 0, cut), hid, inp + 1)
        t2 == Reshape(Slice(p, cut, cut + lab * (hid + 1)), lab, hid + 1)
    IN  IF t1.err # NoErr THEN [err |-> t1.err, theta1 |-> <<>>, theta2 |-> <<>>]
        ELSE IF t2.err # NoErr THEN [err |-> t2.err, theta1 |-> <<>>, theta2 |-> <<>>]
        ELSE [err |-> NoErr, theta1 |-> t1.m, theta2 |-> t2.m]

ReshapeTheta(p, hid, inp, lab) ==
    LET cut == hid * (inp + 1)
        t1 == Reshape(Slice(p, 0, cut), hid, inp + 1)
        t2 == Reshape(Slice(p, cut, Len(p)), lab, hid + 1)
    IN  IF t1.err # NoErr THEN [err |-> t1.err, theta1 |-> <<>>, theta2 |-> <<>>]
        ELSE IF t2.err # NoErr THEN [err |-> t2.err, theta1 |-> <<>>, theta2 |-> <<>>]
        ELSE [err |-> NoErr, theta1 |-> t1.m, theta2 |-> t2.m]

(***************************************************************************)
(* feed_forward, by shapes: a1 is m x (n+1), theta1.T is (inp+1) x hid, so *)
(* a1 * theta1.T raises ValueError unless n = inp.  h is the symbolic      *)
(* m x num_labels prediction of (x, theta1, theta2).                       *)
(***************************************************************************)
FeedForward(Xin, theta1, theta2) ==
    IF Xin.n + 1 # Len(theta1[1])
    THEN [err |-> "ValueError: feed_forward", h |-> <<>>]
    ELSE [err |-> NoErr,
          h |-> [m |-> Rows(Xin), n |-> Len(theta2), x |-> Xin,
                 theta1 |-> theta1, theta2 |-> theta2]]

(***************************************************************************)
(* fit, as far as its exceptions go.  m = X.shape[0].  get_cost multiplies *)
(* y (my rows) and h (m rows) elementwise: numpy broadcasts when the row   *)
(* counts are equal or one of them is 1, and raises ValueError otherwise.  *)
(* float(lam) / (2 * m) raises ZeroDivisionError for m = 0.  The loop      *)
(* reads y[t, :] for t < m: IndexError when y has fewer than m rows.       *)
(* wrote: whether self.writer.write(J) was reached.                        *)
(***************************************************************************)
Fit(p, Xin, Yin, output, hid, inp, lab) ==
    LET m == Rows(Xin)
        my == Rows(Yin)
        th == ReshapeTheta(p, hid, inp, lab)
        ff == FeedForward(Xin, th.theta1, th.theta2)
    IN  IF th.err # NoErr THEN [err |-> th.err, wrote |-> FALSE]
        ELSE IF ff.err # NoErr THEN [err |-> ff.err, wrote |-> FALSE]
        ELSE IF my # m /\ my # 1 /\ m # 1
             THEN [err |-> "ValueError: get_cost", wrote |-> FALSE]
        ELSE IF m = 0 THEN [err |-> "ZeroDivisionError: fit", wrote |-> FALSE]
        ELSE IF m > my THEN [err |-> "IndexError: fit", wrote |-> output]
        ELSE [err |-> NoErr, wrote |-> output]

(***************************************************************************)
(* scipy.optimize.minimize(fun=self.fit, x0=..., method='TNC', jac=True):  *)
(* a black box that evaluates fit at x0 first (an exception of fit leaves  *)
(* the call) and returns some vector of the length of x0.                  *)
(***************************************************************************)
MinimizeResults(start) == ConstVecs(Len(start))

(***************************************************************************)
(* __init__                                                                *)
(***************************************************************************)
Construct(mx, my, nf, nl, l, v) ==
    /\ X = Normalize(Matrix(mx, nf))
    /\ Y = Matrix(my, nl)
    /\ num_labels = nl
    /\ input_size = nf
    /\ hidden_size = nf
    /\ lam = l
    /\ params = v
    /\ outfile = None

\* Nothing called yet, called with arguments a.
Fresh(a) ==
    /\ lastOp = ""
    /\ args = a
    /\ err = NoErr
    /\ ret = None
    /\ writer = "none"
    /\ x0 = None
    /\ optInvoked = FALSE
    /\ idx = <<>>
    /\ error_train = <<>>
    /\ error_val = <<>>

\* The row counts of Y tried with mx rows of X: equal, one, one more.
LabelRows(mx, max) == {my \in {mx, 1, mx + 1} : my <= max}

Instances(max) ==
    \E mx \in 1..max, nf \in FeatureCounts, nl \in LabelCounts :
      \E my \in LabelRows(mx, max), v \in GenerateParams(nf, nf, nl) :
        /\ py \in Interpreters
        /\ Construct(mx, my, nf, nl, 1, v)
        /\ Fresh(<<>>)

Init == Instances(MaxRows)

frame == <<py, X, Y, num_labels, input_size, hidden_size, lam>>
trainOut == <<x0, optInvoked>>
testOut == <<idx, error_train, error_val>>
NoTrainOut == x0' = None /\ optInvoked' = FALSE
NoTestOut == idx' = <<>> /\ error_train' = <<>> /\ error_val' = <<>>

(***************************************************************************)
(* train(verbose, save)                                                    *)
(***************************************************************************)
\* train storing the optimizer's result in self.params.
TrainStoring(verbose, save) ==
    LET first == Fit(params, X, Y, verbose, hidden_size, input_size, num_labels)
    IN  /\ lastOp' = "train"
        /\ args' = <<verbose, save>>
        /\ optInvoked' = TRUE
        /\ x0' = Some(params)
        /\ writer' = IF first.wrote THEN "cost" ELSE "none"
        /\ \/ /\ first.err # NoErr
              /\ err' = first.err
              /\ ret' = None
              /\ outfile' = outfile
              /\ params' = params
           \/ /\ first.err = NoErr
              /\ \E fminx \in MinimizeResults(params) :
                    /\ err' = NoErr
                    /\ ret' = Some(fminx)
                    /\ outfile' = IF save THEN Some(fminx) ELSE outfile
                    /\ params' = fminx
        /\ NoTestOut
        /\ UNCHANGED frame

\* train checking the row counts before it calls the optimizer.
TrainChecked(verbose, save) ==
    LET first == Fit(params, X, Y, verbose, hidden_size, input_size, num_labels)
        bad == Rows(X) # Rows(Y)
    IN  /\ lastOp' = "train"
        /\ args' = <<verbose, save>>
        /\ optInvoked' = ~bad
        /\ x0' = IF bad THEN None ELSE Some(params)
        /\ writer' = IF first.wrote /\ ~bad THEN "cost" ELSE "none"
        /\ \/ /\ bad
              /\ err' = "ValueError: train"
              /\ ret' = None
              /\ outfile' = outfile
           \/ /\ ~bad
              /\ first.err # NoErr
              /\ err' = first.err
              /\ ret' = None
              /\ outfile' = outfile
           \/ /\ ~bad
              /\ first.err = NoErr
              /\ \E fminx \in MinimizeResults(params) :
                    /\ err' = NoErr
                    /\ ret' = Some(fminx)
                    /\ outfile' = IF save THEN Some(fminx) ELSE outfile
        /\ params' = params
        /\ NoTestOut
        /\ UNCHANGED frame

Train(verbose, save) ==
    LET first == Fit(params, X, Y, verbose, hidden_size, input_size, num_labels)
    IN  /\ lastOp' = "train"
        /\ args' = <<verbose, save>>
        /\ optInvoked' = TRUE
        /\ x0' = Some(params)
        /\ writer' = IF first.wrote THEN "cost" ELSE "none"
        /\ \/ /\ first.err # NoErr
              /\ err' = first.err
              /\ ret' = None
              /\ outfile' = outfile
           \/ /\ first.err = NoErr
              /\ \E fminx \in MinimizeResults(params) :
                    /\ err' = NoErr
                    /\ ret' = Some(fminx)
                    /\ outfile' = IF save THEN Some(fminx) ELSE outfile
        /\ params' = params
        /\ NoTestOut
        /\ UNCHANGED frame

(***************************************************************************)
(* set_params(params)                                                      *)
(***************************************************************************)
\* set_params refusing a vector of another length than the architecture's.
SetParamsChecked(v) ==
    LET good == Len(v) = ExpectedLen(hidden_size, input_size, num_labels)
    IN  /\ lastOp' = "set_params"
        /\ args' = <<v>>
        /\ params' = IF good THEN v ELSE params
        /\ err' = IF good THEN NoErr ELSE "ValueError: set_params"
        /\ ret' = None
        /\ writer' = "none"
        /\ NoTrainOut /\ NoTestOut
        /\ UNCHANGED <<frame, outfile>>

SetParams(v) ==
    /\ lastOp' = "set_params"
    /\ args' = <<v>>
    /\ params' = v
    /\ err' = NoErr
    /\ ret' = None
    /\ writer' = "none"
    /\ NoTrainOut /\ NoTestOut
    /\ UNCHANGED <<frame, outfile>>

(***************************************************************************)
(* load_params(name): np.loadtxt of a one-line comma-separated file gives  *)
(* the vector written there, of whatever length.  "output" names the file  *)
(* train saves to; any other file holds some vector.                       *)
(***************************************************************************)
FileNames == {"output", "other"}
LoadParams(name) ==
    IF name = "output"
    THEN IF outfile = None THEN {[err |-> "IOError: load_params", v |-> <<>>]}
         ELSE {[err |-> NoErr, v |-> outfile[1]]}
    ELSE {[err |-> NoErr, v |-> v] : v \in UNION {ConstVecs(n) : n \in 0..MaxVecLen}}

\* set_params(load_params(name))
LoadSetParams(name) ==
    \E l \in LoadParams(name) :
        /\ lastOp' = "load_params"
        /\ args' = <<name>>
        /\ err' = l.err
        /\ params' = IF l.err = NoErr THEN l.v ELSE params
        /\ ret' = None
        /\ writer' = "none"
        /\ NoTrainOut /\ NoTestOut
        /\ UNCHANGED <<frame, outfile>>

(***************************************************************************)
(* training_acc(from_file) and test_acc(X, Y, from_file).  from_file = ""  *)
(* stands for None.  xrange is no name of Python 3.  The loop reads        *)
(* y_pred[x] for x < len(Y), and y_pred has one entry per row of X.        *)
(***************************************************************************)
Accuracy(p, Xin, Yin, who) ==
    LET th == ReshapeTheta(p, hidden_size, input_size, num_labels)
        ff == FeedForward(Xin, th.theta1, th.theta2)
    IN  IF th.err # NoErr THEN th.err
        ELSE IF ff.err # NoErr THEN ff.err
        ELSE IF py = 3 THEN "NameError: xrange"
        ELSE IF Rows(Yin) > Rows(Xin) THEN "IndexError: " \o who
        ELSE NoErr

AccStep(name, a, from_file, Xin, Yin, msg) ==
    \E l \in (IF from_file = "" THEN {[err |-> NoErr, v |-> params]}
              ELSE LoadParams(from_file)) :
        LET e == IF l.err # NoErr THEN l.err ELSE Accuracy(l.v, Xin, Yin, name)
        IN  /\ lastOp' = name
            /\ args' = a
            /\ err' = e
            /\ ret' = None
            /\ writer' = IF e = NoErr THEN msg ELSE "none"
            /\ NoTrainOut /\ NoTestOut
            /\ UNCHANGED <<frame, params, outfile>>

TrainingAcc(from_file) ==
    AccStep("training_acc", <<from_file>>, from_file, X, Y, "train accuracy")

TestAcc(mx, my, nf, from_file) ==
    AccStep("test_acc", <<mx, my, nf, from_file>>, from_file,
            Normalize(Matrix(mx, nf)), Matrix(my, num_labels), "test accuracy")

(***************************************************************************)
(* predict, called on an instance with one row: the def has no self        *)
(* parameter, so the instance is bound to x and the row is one argument    *)
(* too many.                                                               *)
(***************************************************************************)
Predict(row) ==
    /\ lastOp' = "predict"
    /\ args' = <<row>>
    /\ err' = "TypeError: predict"
    /\ ret' = None
    /\ writer' = "none"
    /\ NoTrainOut /\ NoTestOut
    /\ UNCHANGED <<frame, params, outfile>>

(***************************************************************************)
(* split(input).  Python 2 divides the integer length by 10 as integers,   *)
(* Python 3 as reals: unit is the fraction num/den.  round(v, 0) rounds a  *)
(* half away from zero in Python 2 and to the even neighbour in Python 3.  *)
(***************************************************************************)
Unit(length, ver) ==
    IF ver = 2 THEN [num |-> length \div 10, den |-> 1]
    ELSE [num |-> length, den |-> 10]

Round(num, den, ver) ==
    LET q == num \div den
        r == num % den
    IN  IF 2 * r < den THEN q
        ELSE IF 2 * r > den THEN q + 1
        ELSE IF ver = 2 THEN q + 1
        ELSE IF q % 2 = 0 THEN q ELSE q + 1

Split(input, ver) ==
    LET length == Rows(input)
        unit == Unit(length, ver)
        train == Round(unit.num * 6, unit.den, ver)
        cross_test == Round(unit.num * 2, unit.den, ver)
    IN  <<RowSlice(input, 0, train),
          RowSlice(input, train, train + cross_test),
          RowSlice(input, train + cross_test, length)>>

(***************************************************************************)
(* test(step): the learning-curve loop.  A cost is kept as the number of   *)
(* rows it was evaluated on.  The exceptions of fit depend on the length   *)
(* of the parameter vector only, so one generated vector stands for all.   *)
(***************************************************************************)
\* i += step
NextIndexAdd(i, amount, step) == i + step
NextIndex(i, amount, step) == amount * step

RECURSIVE TestLoop(_, _, _, _, _, _, _, _)
TestLoop(i, amount, step, st, x_train, y_train, x_cv, y_cv) ==
    IF ~(i < Rows(x_train)) THEN st
    ELSE
      LET fresh == CHOOSE v \in GenerateParams(hidden_size, input_size, num_labels) : TRUE
          current_input == RowSlice(x_train, 0, i)
          current_output == RowSlice(y_train, 0, i)
          first == Fit(fresh, current_input, current_output, FALSE,
                       hidden_size, input_size, num_labels)
          fminx == CHOOSE v \in MinimizeResults(fresh) : TRUE
          train_cost == Fit(fminx, current_input, current_output, FALSE,
                            hidden_size, input_size, num_labels)
          val_cost == Fit(fminx, x_cv, y_cv, FALSE,
                          hidden_size, input_size, num_labels)
          ran == [st EXCEPT !.idx = Append(st.idx, i)]
      IN  IF first.err # NoErr THEN [ran EXCEPT !.err = first.err]
          ELSE IF train_cost.err # NoErr THEN [ran EXCEPT !.err = train_cost.err]
          ELSE IF val_cost.err # NoErr THEN [ran EXCEPT !.err = val_cost.err]
          ELSE TestLoop(NextIndex(i, amount + 1, step), amount + 1, step,
                        [ran EXCEPT !.error_train = Append(st.error_train, Rows(current_input)),
                                    !.error_val = Append(st.error_val, Rows(x_cv))],
                        x_train, y_train, x_cv, y_cv)

TestEnd(step) ==
    LET xs == Split(X, py)
        ys == Split(Y, py)
    IN  TestLoop(1, 0, step,
                 [idx |-> <<>>, error_train |-> <<>>, error_val |-> <<>>,
                  err |-> NoErr],
                 xs[1], ys[1], xs[2], ys[2])

\* test keeping the last iteration's optimizer result in self.params.
TestStoring(step) ==
    LET end == TestEnd(step)
    IN  /\ lastOp' = "test"
        /\ args' = <<step>>
        /\ err' = end.err
        /\ ret' = None
        /\ writer' = IF end.idx # <<>> THEN "running at index" ELSE "none"
        /\ idx' = end.idx
        /\ error_train' = end.error_train
        /\ error_val' = end.error_val
        /\ NoTrainOut
        /\ IF end.error_train = <<>> THEN params' = params
           ELSE params' \in MinimizeResults(
                    CHOOSE v \in GenerateParams(hidden_size, input_size, num_labels) : TRUE)
        /\ UNCHANGED <<frame, outfile>>

Test(step) ==
    LET end == TestEnd(step)
    IN  /\ lastOp' = "test"
        /\ args' = <<step>>
        /\ err' = end.err
        /\ ret' = None
        /\ writer' = IF end.idx # <<>> THEN "running at index" ELSE "none"
        /\ idx' = end.idx
        /\ error_train' = end.error_train
        /\ error_val' = end.error_val
        /\ NoTrainOut
        /\ UNCHANGED <<frame, params, outfile>>

Next ==
    \/ \E verbose \in BOOLEAN, save \in BOOLEAN : Train(verbose, save)
    \/ \E n \in 0..MaxVecLen : \E v \in ConstVecs(n) : SetParams(v)
    \/ \E name \in FileNames : LoadSetParams(name)
    \/ \E f \in {"", "output"} : TrainingAcc(f)
    \/ \E my \in 1..2, nf \in {input_size, input_size + 1} :
          \E f \in {"", "output"} : TestAcc(1, my, nf, f)
    \/ Predict(Normalize(Matrix(1, input_size)))
    \/ \E step \in 1..MaxStep : Test(step)

Spec == Init /\ [][Next]_vars

(***************************************************************************)
(* The learning-curve run on instances with more rows.                    *)
(***************************************************************************)
InitCurve == Instances(MaxCurveRows)
NextCurve == \E step \in 1..MaxStep : Test(step)
SpecCurve == InitCurve /\ [][NextCurve]_vars

(***************************************************************************)
(* The pure functions, each applied once to arguments drawn by Init (kept  *)
(* in args) on an instance of the smallest shape.                          *)
(***************************************************************************)
Instance(nf, nl, l) ==
    /\ py \in Interpreters
    /\ Construct(1, 1, nf, nl, l,
                 CHOOSE v \in GenerateParams(nf, nf, nl) : TRUE)

Returns(name, e, r) ==
    /\ lastOp = ""
    /\ lastOp' = name
    /\ err' = e
    /\ ret' = r
    /\ UNCHANGED <<frame, params, outfile, args, writer, trainOut, testOut>>

\* split(input)
InitSplit ==
    \E n \in 0..MaxSplitRows \cup {100} :
        Instance(1, 1, 1) /\ Fresh(<<Matrix(n, 1)>>)
CallSplit == Returns("split", NoErr, Some(Split(args[1], py)))
SpecSplit == InitSplit /\ [][CallSplit]_vars

\* reshape_theta(params)
\* Shapes <<columns of X, columns of Y>>; vectors of up to MaxExtra entries
\* more than the shape asks for.
CodecShapes == {<<1, 1>>, <<1, 2>>, <<2, 1>>}
InitCodec ==
    \E sh \in CodecShapes :
      \E n \in 0..ExpectedLen(sh[1], sh[1], sh[2]) + MaxExtra :
        \E p \in AllVecs(n) :
          Instance(sh[1], sh[2], 1) /\ Fresh(<<p>>)
CallReshapeTheta ==
    LET th == ReshapeTheta(args[1], hidden_size, input_size, num_labels)
    IN  Returns("reshape_theta", th.err,
                IF th.err = NoErr THEN Some(<<th.theta1, th.theta2>>) ELSE None)
SpecCodec == InitCodec /\ [][CallReshapeTheta]_vars

(***************************************************************************)
(* get_cost(y, h).  A number near 0 or 1 is w + e * (minval / 2): w is 0   *)
(* or 1 and e a small integer, so that numbers compare by (w, e).  y and h *)
(* are the entries of the two matrices, in row-major order.  A logarithm   *)
(* and the cost are kept as their class: "-inf", "neg", "zero", "pos",     *)
(* "+inf" or "nan".                                                        *)
(***************************************************************************)
minval == 2      \* 0.0000000001, in units of 0.00000000005
Num(w, e) == [w |-> w, e |-> e]
Less(a, b) == a.w < b.w \/ (a.w = b.w /\ a.e < b.e)
Clip(a, lo) == IF Less(a, lo) THEN lo ELSE a
OneMinus(a) == Num(1 - a.w, 0 - a.e)
Log(a) ==
    IF a = Num(0, 0) THEN "-inf"
    ELSE IF Less(a, Num(1, 0)) THEN "neg"
    ELSE IF a = Num(1, 0) THEN "zero"
    ELSE "pos"
\* k * log, for k = 0, 1 or -1
Times(k, l) ==
    IF k = 0 THEN (IF l \in {"-inf", "+inf", "nan"} THEN "nan" ELSE "zero")
    ELSE IF k = 1 THEN l
    ELSE CASE l = "-inf" -> "+inf" [] l = "neg" -> "pos" [] l = "zero" -> "zero"
           [] l = "pos" -> "neg" [] l = "+inf" -> "-inf" [] OTHER -> "nan"
\* a + b for a, b of the classes "zero", "pos", "+inf", "nan"
Plus(a, b) ==
    IF a = "nan" \/ b = "nan" THEN "nan"
    ELSE IF a = "+inf" \/ b = "+inf" THEN "+inf"
    ELSE IF a = "pos" \/ b = "pos" THEN "pos"
    ELSE "zero"
RECURSIVE Sum(_)
Sum(s) == IF s = <<>> THEN "zero" ELSE Plus(Head(s), Sum(Tail(s)))

GetCost(y, h) ==
    LET arg1 == [k \in 1..Len(h) |-> Clip(h[k], Num(0, minval))]
        arg2 == [k \in 1..Len(h) |-> OneMinus(Clip(h[k], Num(0, minval)))]
        first_term == [k \in 1..Len(h) |-> Times(0 - y[k], Log(arg1[k]))]
        second_term == [k \in 1..Len(h) |-> Times(1 - y[k], Log(arg2[k]))]
    IN  [arg1 |-> arg1, arg2 |-> arg2,
         cost |-> Sum([k \in 1..Len(h) |->
                          Plus(first_term[k], Times(-1, second_term[k]))])]

\* The entries of h tried: within MaxEps half-units of 0 or of 1.
HVals == {Num(0, e) : e \in 0..MaxEps} \cup {Num(1, 0 - e) : e \in 0..MaxEps}
RECURSIVE Seqs(_, _)
Seqs(S, n) == IF n = 0 THEN {<<>>}
              ELSE {Append(q, x) : q \in Seqs(S, n - 1), x \in S}
InitCost ==
    \E n \in 1..MaxEntries :
      \E y \in Seqs({0, 1}, n), h \in Seqs(HVals, n) :
        Instance(1, 1, 1) /\ Fresh(<<y, h>>)
CallGetCost == Returns("get_cost", NoErr, Some(GetCost(args[1], args[2])))
SpecCost == InitCost /\ [][CallGetCost]_vars

(***************************************************************************)
(* fit, lines 219-227: the gradient.  acc holds delta1 and delta2 as the   *)
(* loop leaves them (sums over the m examples, which do not depend on      *)
(* lam), flattened like params.  Every entry of the result is a numerator  *)
(* over the common denominator m:                                          *)
(*   delta / m + (theta * lam) / m = (delta + theta * lam) / m.            *)
(***************************************************************************)
\* The regularization term added to every column, the bias column too.
RegularizeAll(delta, theta, l) ==
    [i \in 1..Len(delta) |->
        [j \in 1..Len(delta[i]) |-> delta[i][j] + theta[i][j] * l]]

Regularize(delta, theta, l) ==
    [i \in 1..Len(delta) |->
        [j \in 1..Len(delta[i]) |->
            IF j = 1 THEN delta[i][j] ELSE delta[i][j] + theta[i][j] * l]]

RECURSIVE Ravel(_)
Ravel(M) == IF M = <<>> THEN <<>> ELSE Head(M) \o Ravel(Tail(M))

FitGrad(p, acc, l, hid, inp, lab) ==
    LET th == ReshapeTheta(p, hid, inp, lab)
        d == ReshapeTheta(acc, hid, inp, lab)
    IN  Ravel(Regularize(d.theta1, th.theta1, l))
          \o Ravel(Regularize(d.theta2, th.theta2, l))

\* Shapes <<columns of X, columns of Y>>; acc with every entry the same.
GradShapes == {<<1, 1>>, <<2, 1>>}
InitGrad ==
    \E sh \in GradShapes, l \in 0..MaxLam, a \in (0 - MaxAcc)..MaxAcc :
      \E p \in AllVecs(ExpectedLen(sh[1], sh[1], sh[2])) :
        /\ Instance(sh[1], sh[2], l)
        /\ Fresh(<<p, [k \in 1..ExpectedLen(sh[1], sh[1], sh[2]) |-> a]>>)
CallFit ==
    Returns("fit", NoErr,
            Some(FitGrad(args[1], args[2], lam, hidden_size, input_size, num_labels)))
SpecGrad == InitGrad /\ [][CallFit]_vars

(***************************************************************************)
(* Properties.                                                             *)
(***************************************************************************)
Expected == ExpectedLen(hidden_size, input_size, num_labels)

\* C1, as stated: after train returns, self.params equals the vector the
\* optimizer returned.
C1_TrainStoresResult ==
    (lastOp = "train" /\ err = NoErr) => params = ret[1]

\* C1, amended: train leaves self.params as it was; it starts the optimizer
\* from self.params and returns (and, with save, writes to the output file) the
\* optimizer's result, a vector of the same length; a train call that follows
\* a train call starts the optimizer from the same vector as the first.
C1_TrainReturnsResult ==
    [][lastOp' = "train" =>
          /\ params' = params
          /\ x0' = Some(params)
          /\ err' = NoErr =>
                /\ ret' # None
                /\ Len(ret'[1]) = Len(params)
                /\ args'[2] => outfile' = ret'
          /\ lastOp = "train" => x0' = x0]_vars

\* A train call returned a vector that differs from the stored one.
C1_Witness ==
    lastOp = "train" /\ err = NoErr /\ ret # None /\ ret[1] # params

\* round(num/den), for the ratios of C2 (6n/10 and 2n/10 are never halves).
Nearest(num, den) == (2 * num + den) \div (2 * den)

\* C2, as stated: for an input of n rows split returns three contiguous,
\* order-preserving, disjoint row ranges that cover all rows: round(0.6*n)
\* rows, then round(0.2*n) rows, then the rest (60/20/20 of 100, 6/2/2 of
\* 10, and likewise for n that is no multiple of 10).
C2_SplitRatio ==
    lastOp = "split" =>
        LET input == args[1]
            n == Rows(input)
            train == ret[1][1]
            cv == ret[1][2]
            test == ret[1][3]
        IN  /\ train.rows \o cv.rows \o test.rows = input.rows
            /\ Rows(train) = Nearest(6 * n, 10)
            /\ Rows(cv) = Nearest(2 * n, 10)
            /\ Rows(test) = n - Rows(train) - Rows(cv)

\* C3, as stated: predict, called on an instance with one correctly shaped
\* row, returns the output activations h of forward propagation with the
\* stored parameters, and raises nothing.
C3_PredictReturnsH ==
    (lastOp = "predict" /\ Len(params) = Expected) =>
        LET th == ReshapeTheta(params, hidden_size, input_size, num_labels)
        IN  /\ err = NoErr
            /\ ret = Some(FeedForward(args[1], th.theta1, th.theta2).h)

\* C4, as stated: in every reachable state the stored vector has the length
\* hidden_size*(input_size+1) + num_labels*(hidden_size+1).
C4_ParamsLengthInvariant == Len(params) = Expected

\* C4, amended: the stored vector has the architecture's length after
\* construction, and train, the diagnostic run, training_acc, test_acc and
\* predict never change it; set_params stores the vector it is given, of
\* whatever length and with no error (so does set_params on a vector that
\* load_params read).
C4_LengthKeptButNotChecked ==
    /\ Len(params) = Expected
    /\ [][/\ lastOp' \notin {"set_params", "load_params"} => params' = params
          /\ lastOp' = "set_params" => (params' = args'[1] /\ err' = NoErr)
          /\ (lastOp' = "load_params" /\ args'[1] = "output" /\ err' = NoErr)
                => Some(params') = outfile]_vars

\* set_params stored a vector of another length.
C4_Witness ==
    lastOp = "set_params" /\ err = NoErr /\ Len(params) # Expected

\* C5, as stated: with different row counts of X and Y, train ends in an
\* error and the optimizer was not invoked.
C5_AbortBeforeOptimizer ==
    (lastOp = "train" /\ Rows(X) # Rows(Y)) => (err # NoErr /\ ~optInvoked)

\* C5, amended: with different row counts of X and Y (and a stored vector
\* of the architecture's length) train invokes the optimizer, and the
\* dimension error comes out of that call, from the first evaluation of
\* fit: ValueError from get_cost when both counts exceed 1, IndexError
\* from the loop over the rows when Y has one row; train then returns
\* nothing.  When X has one row, no error is raised.
C5_ErrorInsideOptimizerCall ==
    (lastOp = "train" /\ Rows(X) # Rows(Y) /\ Len(params) = Expected) =>
        /\ optInvoked
        /\ x0 = Some(params)
        /\ (Rows(X) > 1 /\ Rows(Y) > 1) => err = "ValueError: get_cost"
        /\ Rows(Y) = 1 => err = "IndexError: fit"
        /\ Rows(X) = 1 => err = NoErr
        /\ err # NoErr => ret = None

\* train ended in the dimension error of get_cost, raised inside minimize.
C5_Witness ==
    /\ lastOp = "train" /\ Rows(X) # Rows(Y)
    /\ optInvoked /\ err = "ValueError: get_cost"

\* C6: reshape_theta raises for every vector whose length is not
\* hidden_size*(input_size+1) + num_labels*(hidden_size+1), shorter or
\* longer, and returns no matrices then.
C6_ReshapeRejectsWrongLength ==
    (lastOp = "reshape_theta" /\ Len(args[1]) # Expected) =>
        (err = "ValueError: reshape" /\ ret = None)

\* reshape_theta was given a vector that is too long, and raised.
C6_Witness ==
    lastOp = "reshape_theta" /\ Len(args[1]) > Expected /\ err # NoErr

\* C7, as stated: the prefix sizes are 1, 1+step, 1+2*step, ..., strictly
\* increasing, with one train error and one validation error per size.
C7_SizesGrowByStep ==
    lastOp = "test" =>
        /\ \A k \in 1..Len(idx) : idx[k] = 1 + (k - 1) * args[1]
        /\ \A k \in 1..Len(idx) - 1 : idx[k] < idx[k + 1]
        /\ Len(error_train) = Len(error_val)

\* C7, amended: the prefix sizes are 1, step, 2*step, ... (i = amount*step
\* after the first iteration): never decreasing, strictly increasing for
\* step >= 2, and with step = 1 the size 1 is used twice.  The two error
\* lists have the same length: one entry per size when the run ends without
\* an error, one less than the sizes when an iteration raises.
C7_SizesAreMultiplesOfStep ==
    lastOp = "test" =>
        /\ \A k \in 1..Len(idx) : idx[k] = IF k = 1 THEN 1 ELSE (k - 1) * args[1]
        /\ \A k \in 1..Len(idx) - 1 : idx[k] <= idx[k + 1]
        /\ args[1] >= 2 => \A k \in 1..Len(idx) - 1 : idx[k] < idx[k + 1]
        /\ (args[1] = 1 /\ Len(idx) >= 2) => idx[2] = idx[1]
        /\ Len(error_train) = Len(error_val)
        /\ err = NoErr => error_train = idx
        /\ err # NoErr => Len(idx) = Len(error_train) + 1

\* A run with step = 1 that went through at least three sizes.
C7_Witness ==
    lastOp = "test" /\ args[1] = 1 /\ err = NoErr /\ Len(error_train) >= 3

\* Whether entry k of the flat gradient belongs to column 0 of its matrix.
IsBias(k) ==
    LET cut == hidden_size * (input_size + 1)
    IN  IF k <= cut THEN (k - 1) % (input_size + 1) = 0
        ELSE (k - cut - 1) % (hidden_size + 1) = 0

\* The gradient fit returns for the same arguments with lam = 0.
Grad0 == FitGrad(args[1], args[2], 0, hidden_size, input_size, num_labels)

\* C8, as stated: with lam > 0 the bias entries of the gradient are those of
\* lam = 0 and every other entry differs from its lam = 0 value.
C8_NonBiasEntriesDiffer ==
    (lastOp = "fit" /\ lam > 0) =>
        \A k \in 1..Len(ret[1]) :
            IF IsBias(k) THEN ret[1][k] = Grad0[k] ELSE ret[1][k] # Grad0[k]

\* C8, amended: the bias entries of the gradient are those of lam = 0, and
\* every other entry is its lam = 0 value plus lam * weight / m: it differs
\* from the lam = 0 value where lam * weight is not 0, and is the same where
\* the weight is 0.
C8_NonBiasEntriesShiftByWeight ==
    lastOp = "fit" =>
        \A k \in 1..Len(ret[1]) :
            /\ IsBias(k) => ret[1][k] = Grad0[k]
            /\ ~IsBias(k) => ret[1][k] = Grad0[k] + lam * args[1][k]
            /\ (~IsBias(k) /\ args[1][k] = 0) => ret[1][k] = Grad0[k]
            /\ (~IsBias(k) /\ lam * args[1][k] # 0) => ret[1][k] # Grad0[k]

\* fit with lam > 0, a bias weight that is not 0, and one weight outside
\* the bias columns that is 0 and one that is not.
C8_Witness ==
    /\ lastOp = "fit" /\ lam > 0
    /\ \E k \in 1..Len(ret[1]) : IsBias(k) /\ args[1][k] # 0
    /\ \E k \in 1..Len(ret[1]) : ~IsBias(k) /\ args[1][k] = 0
    /\ \E k \in 1..Len(ret[1]) : ~IsBias(k) /\ args[1][k] # 0

\* C9, as stated: for every entry of h in [0, 1] both arguments of log, h
\* for the y term and 1-h for the (1-y) term, are at least minval, and the
\* cost is finite and not negative.
C9_LogArgumentsFloored ==
    lastOp = "get_cost" =>
        /\ \A k \in 1..Len(args[2]) :
              /\ ~Less(ret[1].arg1[k], Num(0, minval))
              /\ ~Less(ret[1].arg2[k], Num(0, minval))
        /\ ret[1].cost \in {"zero", "pos"}

\* C10: test, training_acc and test_acc leave X, Y, the architecture sizes
\* and the stored parameter vector as they were.
C10_DiagnosticsKeepInstance ==
    [][lastOp' \in {"test", "training_acc", "test_acc"} =>
          UNCHANGED <<X, Y, num_labels, input_size, hidden_size, params>>]_vars

\* A learning-curve run that trained at least once.
C10_Witness ==
    lastOp = "test" /\ err = NoErr /\ Len(error_train) >= 1

====
